---- MODULE Spec2Model ----
(***************************************************************************)
(* A model of fp-ts-remote-data (src/src/index.ts): the three-variant      *)
(* RemoteData union, its constructors, guards, destructors and             *)
(* combinators.                                                            *)
(*                                                                         *)
(* The library is a set of pure functions.  A function of the library is   *)
(* an operator here, computed the way the code computes it.  A callback    *)
(* the caller passes in (f, onPending, that, ...) is a function whose      *)
(* application yields a record [val, calls]: the value it returns and the  *)
(* names of the callbacks that ran to produce it, in order.  An operator   *)
(* that takes callbacks returns such a record too, so "f is not invoked"   *)
(* is a statement about calls.                                             *)
(***************************************************************************)
EXTENDS Integers, Sequences, FiniteSets, TLC

\* Bounds of the payload types: A = 0..MaxA (success), E = 0..MaxE (failure).
MaxA == 1
MaxE == 1

A == 0 .. MaxA
E == 0 .. MaxE

----------------------------------------------------------------------------
\* model, constructors and guards

pending == [_tag |-> "Pending"]

success(a) == [_tag |-> "Success", success |-> a]

failure(e) == [_tag |-> "Failure", failure |-> e]

\* RemoteData<E, A>
RemoteData(EE, AA) ==
  {pending} \cup {success(a) : a \in AA} \cup {failure(e) : e \in EE}

RD == RemoteData(E, A)

isPending(ma) == ma._tag = "Pending"

isSuccess(ma) == ma._tag = "Success"

isFailureTagNotSuccess(ma) == ma._tag # "Success"

isFailure(ma) == ma._tag = "Failure"

\* fp-ts/Either
left(e) == [_tag |-> "Left", left |-> e]

right(a) == [_tag |-> "Right", right |-> a]

Either(EE, AA) == {left(e) : e \in EE} \cup {right(a) : a \in AA}

\* fp-ts/function
identity(AA) == [a \in AA |-> a]

----------------------------------------------------------------------------
\* callbacks and their invocations

\* a value obtained without running any callback
Ret(v) == [val |-> v, calls |-> <<>>]

\* the caller's unary callback `name`, which computes g
Fn(name, g) == [x \in DOMAIN g |-> [val |-> g[x], calls |-> <<name>>]]

\* the caller's thunk `name`, which returns v
Thunk(name, v) == [val |-> v, calls |-> <<name>>]

\* right and left used as callbacks: they call nothing of the caller's
rightK == [a \in A |-> Ret(right(a))]

leftK == [e \in E |-> Ret(left(e))]

----------------------------------------------------------------------------
\* destructors

\* fold evaluating the pending handler before it looks at the variant
foldEagerPending(onPending, onSuccess, onFailure, ma) ==
  IF isPending(ma) THEN onPending
  ELSE IF isSuccess(ma)
  THEN [val |-> onSuccess[ma.success].val,
        calls |-> onPending.calls \o onSuccess[ma.success].calls]
  ELSE [val |-> onFailure[ma.failure].val,
        calls |-> onPending.calls \o onFailure[ma.failure].calls]

fold(onPending, onSuccess, onFailure, ma) ==
  IF isPending(ma) THEN onPending
  ELSE IF isSuccess(ma) THEN onSuccess[ma.success]
  ELSE onFailure[ma.failure]

\* fold(() => left(onPending()), right, left)
toEither(onPending, ma) ==
  fold([val |-> left(onPending.val), calls |-> onPending.calls],
       rightK, leftK, ma)

\* fromEither with the two sides exchanged
fromEitherSwapped(ei) ==
  IF ei._tag = "Left" THEN success(ei.left) ELSE failure(ei.right)

fromEither(ei) ==
  IF ei._tag = "Left" THEN failure(ei.left) ELSE success(ei.right)

----------------------------------------------------------------------------
\* combinators

orElseW(onFailure, ma) ==
  IF isFailure(ma) THEN onFailure[ma.failure] ELSE Ret(ma)

orElse(onFailure, ma) == orElseW(onFailure, ma)

\* map collapsing every value that is not a Success to pending
mapDropsFailure(f, fa) ==
  IF isSuccess(fa)
  THEN [val |-> success(f[fa.success].val), calls |-> f[fa.success].calls]
  ELSE Ret(pending)

map(f, fa) ==
  IF isSuccess(fa)
  THEN [val |-> success(f[fa.success].val), calls |-> f[fa.success].calls]
  ELSE Ret(fa)

\* ap looking at the argument operand first
apArgumentFirst(fa, fab) ==
  IF isSuccess(fa)
  THEN (IF isSuccess(fab) THEN success(fab.success[fa.success]) ELSE fab)
  ELSE fa

\* ap letting a Failure win over a Pending in either position
apFailureFirst(fa, fab) ==
  IF isFailure(fab) THEN fab
  ELSE IF isFailure(fa) THEN fa
  ELSE IF isPending(fab) THEN fab
  ELSE IF isPending(fa) THEN fa
  ELSE success(fab.success[fa.success])

\* the payload of fab is a function value: it is applied, not logged
apW(fa, fab) ==
  IF isSuccess(fab)
  THEN (IF isSuccess(fa) THEN success(fab.success[fa.success]) ELSE fa)
  ELSE fab

ap(fa, fab) == apW(fa, fab)

\* of building a value of the wrong variant
ofAsFailure(a) == failure(a)

of(a) == success(a)

\* chain keeping the receiver when f does not return a Success
chainKeepsReceiver(f, ma) ==
  IF isSuccess(ma)
  THEN (IF isSuccess(f[ma.success].val)
        THEN f[ma.success]
        ELSE [val |-> ma, calls |-> f[ma.success].calls])
  ELSE Ret(ma)

chainW(f, ma) ==
  IF isSuccess(ma) THEN f[ma.success] ELSE Ret(ma)

chain(f, ma) == chainW(f, ma)

\* alt replacing a Pending as well as a Failure
altReplacesPending(that, fa) ==
  IF isSuccess(fa) THEN Ret(fa) ELSE that

altW(that, fa) ==
  IF isFailure(fa) THEN that ELSE Ret(fa)

alt(that, fa) == altW(that, fa)

----------------------------------------------------------------------------
\* interop with code that throws

\* the caller's code `name` ran and returned v
Returns(name, v) == [threw |-> FALSE, val |-> v, calls |-> <<name>>]

\* the caller's code `name` ran and threw x
Throws(name, x) == [threw |-> TRUE, val |-> x, calls |-> <<name>>]

Outcomes(name, AA, XX) ==
  {Returns(name, a) : a \in AA} \cup {Throws(name, x) : x \in XX}

\* an exception that reaches the caller instead of a value
Throw(x) == [_tag |-> "Throw", error |-> x]

\* tryCatch letting the exception through
tryCatchRethrows(f, onThrow) ==
  IF f.threw
  THEN [val |-> Throw(f.val), calls |-> f.calls]
  ELSE [val |-> success(f.val), calls |-> f.calls]

\* f is the outcome of the one evaluation of the thunk
tryCatch(f, onThrow) ==
  IF f.threw
  THEN [val |-> failure(onThrow[f.val].val),
        calls |-> f.calls \o onThrow[f.val].calls]
  ELSE [val |-> success(f.val), calls |-> f.calls]

\* (...a) => tryCatch(() => f(...a), onThrow)
tryCatchK(f, onThrow, a) == tryCatch(f[a], onThrow)

----------------------------------------------------------------------------
\* interop with nullable values and with Option

\* a value that may be null or undefined
JsNull == [js |-> "null"]

JsUndefined == [js |-> "undefined"]

Js(a) == [js |-> "value", value |-> a]

Nullable(AA) == {JsNull, JsUndefined} \cup {Js(a) : a \in AA}

\* a == null
eqNull(a) == a.js \in {"null", "undefined"}

\* fp-ts/Option
none == [_tag |-> "None"]

some(a) == [_tag |-> "Some", value |-> a]

Option(AA) == {none} \cup {some(a) : a \in AA}

\* an argument declared Lazy<E>: the thunk `name` returning v ...
Lazy(name, v) == [callable |-> TRUE, val |-> v, calls |-> <<name>>]

\* ... or, as the tests pass it, the value v itself
Plain(v) == [callable |-> FALSE, val |-> v, calls |-> <<>>]

\* x(): calling what is not a function throws a TypeError
Call(x) ==
  IF x.callable
  THEN [threw |-> FALSE, val |-> x.val, calls |-> x.calls]
  ELSE [threw |-> TRUE, val |-> "TypeError", calls |-> <<>>]

\* failure(x()): the argument is evaluated first, and may throw
failureOfCall(x) ==
  IF Call(x).threw
  THEN [val |-> Throw(Call(x).val), calls |-> Call(x).calls]
  ELSE [val |-> failure(Call(x).val), calls |-> Call(x).calls]

\* fromNullable testing the value for truthiness: 0 counts as absent
fromNullableFalsy(onNull, a) ==
  IF eqNull(a) THEN failureOfCall(onNull)
  ELSE IF a.value = 0 THEN failureOfCall(onNull)
  ELSE Ret(success(a.value))

fromNullable(onNull, a) ==
  IF eqNull(a) THEN failureOfCall(onNull) ELSE Ret(success(a.value))

fromOption(onNone, ma) ==
  IF ma._tag = "None" THEN failureOfCall(onNone) ELSE Ret(success(ma.value))

\* (...a) => from(f(...a)), from = fromNullable(e)
fromNullableK(e, f, a) ==
  [val |-> fromNullable(e, f[a].val).val,
   calls |-> f[a].calls \o fromNullable(e, f[a].val).calls]

\* chain(from(f)), from = fromNullableK(e)
chainNullableK(e, f, ma) ==
  chain([a \in DOMAIN f |-> fromNullableK(e, f, a)], ma)

----------------------------------------------------------------------------
\* combinators built on chain

fromPredicate(predicate, onFalse, a) ==
  IF predicate[a].val
  THEN [val |-> success(a), calls |-> predicate[a].calls]
  ELSE [val |-> failure(onFalse[a].val),
        calls |-> predicate[a].calls \o onFalse[a].calls]

\* filterOrElse failing the values the predicate accepts
filterOrElseInverted(predicate, onFalse, ma) ==
  chainW([a \in DOMAIN predicate |->
            IF ~predicate[a].val
            THEN [val |-> success(a), calls |-> predicate[a].calls]
            ELSE [val |-> failure(onFalse[a].val),
                  calls |-> predicate[a].calls \o onFalse[a].calls]],
         ma)

\* chainW(a => (predicate(a) ? success(a) : failure(onFalse(a))))
filterOrElseW(predicate, onFalse, ma) ==
  chainW([a \in DOMAIN predicate |->
            IF predicate[a].val
            THEN [val |-> success(a), calls |-> predicate[a].calls]
            ELSE [val |-> failure(onFalse[a].val),
                  calls |-> predicate[a].calls \o onFalse[a].calls]],
         ma)

filterOrElse(predicate, onFalse, ma) == filterOrElseW(predicate, onFalse, ma)

\* () => a, as map's callback: it calls nothing of the caller's
constK(a, BB) == [b \in BB |-> Ret(a)]

\* chainFirst keeping the result of f, as chain does
chainFirstKeepsSecond(f, ma) == chainW(f, ma)

\* pipe(ma, chainW(a => pipe(f(a), map(() => a))))
chainFirstW(f, ma) ==
  chainW([a \in DOMAIN f |->
            [val |-> map(constK(a, A), f[a].val).val,
             calls |-> f[a].calls \o map(constK(a, A), f[a].val).calls]],
         ma)

chainFirst(f, ma) == chainFirstW(f, ma)

\* chainEither making a Success of a Left too
chainEitherAlwaysSuccess(f, ma) ==
  IF isSuccess(ma)
  THEN [val |-> success(IF f[ma.success].val._tag = "Left"
                        THEN f[ma.success].val.left
                        ELSE f[ma.success].val.right),
        calls |-> f[ma.success].calls]
  ELSE Ret(ma)

chainEitherW(f, ma) ==
  IF isSuccess(ma)
  THEN [val |-> fromEither(f[ma.success].val), calls |-> f[ma.success].calls]
  ELSE Ret(ma)

chainEither(f, ma) == chainEitherW(f, ma)

----------------------------------------------------------------------------
\* bifunctor, derived applicatives, extend and flatten

\* bimap transforming the Success payload only
bimapSuccessOnly(f, g, fa) == map(g, fa)

bimap(f, g, fa) ==
  IF isSuccess(fa)
  THEN [val |-> success(g[fa.success].val), calls |-> g[fa.success].calls]
  ELSE IF isFailure(fa)
       THEN [val |-> failure(f[fa.failure].val),
             calls |-> f[fa.failure].calls]
       ELSE Ret(fa)

mapLeft(f, fa) ==
  IF isFailure(fa)
  THEN [val |-> failure(f[fa.failure].val), calls |-> f[fa.failure].calls]
  ELSE Ret(fa)

\* apFirst letting a non-Success fb win over a non-Success fa
apFirstArgumentWins(fb, fa) ==
  IF isSuccess(fb) THEN fa ELSE fb

\* flow(map(a => () => a), ap(fb))
apFirst(fb, fa) ==
  ap(fb, map([a \in A |-> Ret([b \in A |-> a])], fa).val)

\* flow(map(() => b => b), ap(fb))
apSecond(fb, fa) ==
  ap(fb, map([a \in A |-> Ret(identity(A))], fa).val)

\* extend applying f to every variant
extendEveryVariant(f, wa) ==
  [val |-> success(f[wa].val), calls |-> f[wa].calls]

extend(f, wa) ==
  IF isSuccess(wa)
  THEN [val |-> success(f[wa].val), calls |-> f[wa].calls]
  ELSE Ret(wa)

\* identity used as a callback: it calls nothing of the caller's
identityK(AA) == [a \in AA |-> Ret(a)]

\* extend(identity)
duplicate(ma) == extend(identityK(RD), ma).val

\* flatten keeping the outer Success when the inner value is not one
flattenKeepsReceiver(mma) == chainKeepsReceiver(identityK(RD), mma).val

\* chain(identity)
flatten(mma) == chain(identityK(RD), mma).val

\* of used as a callback
ofK == [a \in A |-> Ret(of(a))]

----------------------------------------------------------------------------
\* traversable

\* the applicative instances F passed to traverse and sequence
Applicatives == {"Option", "Identity"}

\* the values of F<AA>
HKT(F, AA) == IF F = "Option" THEN Option(AA) ELSE AA

\* F.map(fa, f)
Fmap(F, fa, f) ==
  IF F = "Option"
  THEN (IF fa = none THEN none ELSE some(f[fa.value]))
  ELSE f[fa]

\* F.of(a)
Fof(F, a) == IF F = "Option" THEN some(a) ELSE a

\* success used as the function F.map applies
successFn == [a \in A |-> success(a)]

\* traverse forgetting which non-Success value it was given
traverseLosesFailure(F, f, ta) ==
  IF isSuccess(ta)
  THEN [val |-> Fmap(F, f[ta.success].val, successFn),
        calls |-> f[ta.success].calls]
  ELSE Ret(Fof(F, pending))

traverse(F, f, ta) ==
  IF isSuccess(ta)
  THEN [val |-> Fmap(F, f[ta.success].val, successFn),
        calls |-> f[ta.success].calls]
  ELSE Ret(Fof(F, ta))

sequence(F, ma) ==
  IF isSuccess(ma) THEN Fmap(F, ma.success, successFn) ELSE Fof(F, ma)

----------------------------------------------------------------------------
\* foldable

\* reduce passing the payload first and the seed second
reduceArgumentsSwapped(b, f, fa) ==
  IF isSuccess(fa) THEN f[<<fa.success, b>>] ELSE Ret(b)

reduce(b, f, fa) ==
  IF isSuccess(fa) THEN f[<<b, fa.success>>] ELSE Ret(b)

reduceRight(b, f, fa) ==
  IF isSuccess(fa) THEN f[<<fa.success, b>>] ELSE Ret(b)

\* the monoid instances M passed to foldMap, over numbers
Monoids == {"monoidSum", "monoidProduct"}

\* M.empty
Mempty(M) == IF M = "monoidSum" THEN 0 ELSE 1

foldMap(M, f, fa) ==
  IF isSuccess(fa) THEN f[fa.success] ELSE Ret(Mempty(M))

----------------------------------------------------------------------------
\* utils

RECURSIVE elem(_, _, _)

\* elem comparing a with the payload of a Failure too
elemComparesFailure(Eq, a, ma) ==
  IF ma = JsUndefined
  THEN [m \in RD |-> elem(Eq, a, m)]
  ELSE IF isSuccess(ma) THEN Eq[<<a, ma.success>>]
       ELSE IF isFailure(ma) THEN Eq[<<a, ma.failure>>] ELSE Ret(FALSE)

\* elem(E)(a, ma); without ma, the function awaiting it
elem(Eq, a, ma) ==
  IF ma = JsUndefined
  THEN [m \in RD |-> elem(Eq, a, m)]
  ELSE IF isSuccess(ma) THEN Eq[<<a, ma.success>>] ELSE Ret(FALSE)

exists(predicate, ma) ==
  IF isSuccess(ma) THEN predicate[ma.success] ELSE Ret(FALSE)

----------------------------------------------------------------------------
\* instances

\* eq is reflexive, symmetric and transitive on S
IsEquivalence(eq, S) ==
  /\ \A x \in S : eq[<<x, x>>]
  /\ \A x, y \in S : eq[<<x, y>>] => eq[<<y, x>>]
  /\ \A x, y, z \in S : eq[<<x, y>>] /\ eq[<<y, z>>] => eq[<<x, z>>]

\* the Eq instances over S: the lawful ones, and one equating nothing
Eqs(S) ==
  {eq \in [S \X S -> BOOLEAN] :
     IsEquivalence(eq, S) \/ \A p \in S \X S : ~eq[p]}

\* getEq equating every two Failures
getEqIgnoresFailurePayload(EqE, EqA, x, y) ==
  IF isPending(x) THEN Ret(isPending(y))
  ELSE IF isSuccess(x)
       THEN (IF isSuccess(y) THEN EqA[<<x.success, y.success>>]
             ELSE Ret(FALSE))
       ELSE Ret(isFailure(y))

\* getEq(EqE, EqA).equals(x, y)
getEq(EqE, EqA, x, y) ==
  IF isPending(x) THEN Ret(isPending(y))
  ELSE IF isSuccess(x)
       THEN (IF isSuccess(y) THEN EqA[<<x.success, y.success>>]
             ELSE Ret(FALSE))
       ELSE (IF isFailure(y) THEN EqE[<<x.failure, y.failure>>]
             ELSE Ret(FALSE))

----------------------------------------------------------------------------
\* projections

\* toNullable handing out the payload of a Failure too
toNullableKeepsFailure(ma) ==
  IF isSuccess(ma) THEN Js(ma.success)
  ELSE IF isFailure(ma) THEN Js(ma.failure) ELSE JsNull

toNullable(ma) == IF isSuccess(ma) THEN Js(ma.success) ELSE JsNull

toUndefined(ma) == IF isSuccess(ma) THEN Js(ma.success) ELSE JsUndefined

getSuccess(ma) == IF isSuccess(ma) THEN some(ma.success) ELSE none

getFailure(ma) == IF isFailure(ma) THEN some(ma.failure) ELSE none

----------------------------------------------------------------------------
\* swap

\* swap leaving a Failure where it is
swapKeepsFailure(ma) ==
  IF isSuccess(ma) THEN failure(ma.success) ELSE ma

swap(ma) ==
  IF isSuccess(ma) THEN failure(ma.success)
  ELSE IF isFailure(ma) THEN success(ma.failure) ELSE ma

----------------------------------------------------------------------------
\* do notation

\* {}
EmptyRecord == [n \in {} |-> 0]

\* { ...r, [name]: b }
With(r, name, b) ==
  [n \in DOMAIN r \cup {name} |-> IF n = name THEN b ELSE r[n]]

Do == success(EmptyRecord)

\* chain(a => pipe(f(a), map(b => ({ ...a, [name]: b }))))
bind(name, f, ma) ==
  chainW([r \in DOMAIN f |->
            [val |-> map([b \in A |-> Ret(With(r, name, b))], f[r].val).val,
             calls |-> f[r].calls]],
         ma)

----------------------------------------------------------------------------
\* non-pipeables: the methods of the instance remoteData

map_(fa, f) == map(f, fa)

ap_(fab, fa) == ap(fa, fab)

chain_(ma, f) == chain(f, ma)

reduce_(fa, b, f) == reduce(b, f, fa)

foldMap_(M, fa, f) == foldMap(M, f, fa)

reduceRight_(fa, b, f) == reduceRight(b, f, fa)

traverse_(F, ta, f) == traverse(F, f, ta)

bimap_(fa, f, g) == bimap(f, g, fa)

mapLeft_(fa, f) == mapLeft(f, fa)

alt_(fa, that) == alt(that, fa)

extend_(wa, f) == extend(f, wa)

----------------------------------------------------------------------------
\* The program: a value is built by a constructor and one operation of the
\* library, or a pipe of two, is applied to it while it is fresh.
\*   src    the value the constructor built
\*   len    the number of operations applied to it since
\*   recv   the value the last operation was applied to
\*   op     the last operation
\*   arg    the arguments the caller gave it
\*   ma     the RemoteData value at hand (the result of the last combinator)
\*   out    the result of the last operation when it is not the value at hand
\*          (of its first stage when it has two)
\*   calls  the callbacks the last operation invoked, in order

VARIABLES src, len, recv, op, arg, ma, out, calls

vars == <<src, len, recv, op, arg, ma, out, calls>>

\* the longest pipe
MaxLen == 3

None == "none"

Constructors == {"pending", "success", "failure", "fromEither"}

\* the value at hand comes straight from a constructor
Fresh == op \in Constructors

Built(name, a, v) ==
  /\ src = v
  /\ len = 0
  /\ recv = v
  /\ op = name
  /\ arg = a
  /\ ma = v
  /\ out = None
  /\ calls = <<>>

Init ==
  \/ Built("pending", <<>>, pending)
  \/ \E a \in A : Built("success", <<a>>, success(a))
  \/ \E e \in E : Built("failure", <<e>>, failure(e))

\* name(a) applied to the value at hand gave r
\* (mid: what its first stage gave the second, when it has two)
Applied(name, a, mid, r) ==
  /\ src' = src
  /\ recv' = ma
  /\ op' = name
  /\ arg' = a
  /\ out' = mid
  /\ calls' = r.calls

\* one combinator applied to the value at hand
Step(name, a, r) ==
  /\ Applied(name, a, None, r)
  /\ len' = len + 1
  /\ ma' = r.val

\* one destructor applied to the value at hand, which stays at hand
Destruct(name, a, r) ==
  /\ Applied(name, a, r.val, r)
  /\ len' = len + 1
  /\ ma' = ma

\* a pipe of two stages applied to the value at hand
Steps(name, a, mid, r) ==
  /\ Applied(name, a, mid, r)
  /\ len' = len + 2
  /\ ma' = r.val

\* pipe(r, k): the second stage k applied to what the first stage r
\* returned; the callbacks of both stages, in order
Then(r, k) ==
  [val |-> k[r.val].val, calls |-> r.calls \o k[r.val].calls]

\* x => g(f(x))
Compose(g, f) == [x \in DOMAIN f |-> g[f[x]]]

\* x => pipe(f(x), chain(g))
ChainAfter(g, f) ==
  [x \in DOMAIN f |-> Then(f[x], [v \in RD |-> chain(g, v)])]

\* fold(onPending, onSuccess, onFailure)(ma), the handlers returning E
Fold ==
  /\ Fresh
  /\ \E p \in E, s \in [A -> E], f \in [E -> E] :
       Destruct("fold", [onPending |-> p, onSuccess |-> s, onFailure |-> f],
                fold(Thunk("onPending", p), Fn("onSuccess", s),
                     Fn("onFailure", f), ma))

\* pipe(ma, map(f))
Map ==
  /\ Fresh
  /\ \E f \in [A -> A] :
       Step("map", [f |-> f], map(Fn("f", f), ma))

\* pipe(ma, map(f), map(g))
MapMap ==
  /\ Fresh
  /\ \E f \in [A -> A], g \in [A -> A] :
       Steps("map;map", [f |-> f, g |-> g], map(Fn("f", f), ma).val,
             Then(map(Fn("f", f), ma), [v \in RD |-> map(Fn("g", g), v)]))

\* pipe(ma, chain(f))
Chain ==
  /\ Fresh
  /\ \E f \in [A -> RD] :
       Step("chain", [f |-> f], chain(Fn("f", f), ma))

\* pipe(ma, chain(f), chain(g))
ChainChain ==
  /\ Fresh
  /\ \E f \in [A -> RD], g \in [A -> RD] :
       Steps("chain;chain", [f |-> f, g |-> g], chain(Fn("f", f), ma).val,
             Then(chain(Fn("f", f), ma), [v \in RD |-> chain(Fn("g", g), v)]))

\* pipe(fab, ap(ma)): the value at hand is the argument operand
Ap ==
  /\ Fresh
  /\ \E fab \in RemoteData(E, [A -> A]) :
       Step("ap", [fab |-> fab, fa |-> ma], Ret(ap(ma, fab)))

\* pipe(ma, orElse(onFailure))
OrElse ==
  /\ Fresh
  /\ \E f \in [E -> RD] :
       Step("orElse", [onFailure |-> f], orElse(Fn("onFailure", f), ma))

\* pipe(ma, alt(that))
Alt ==
  /\ Fresh
  /\ \E t \in RD :
       Step("alt", [that |-> t], alt(Thunk("that", t), ma))

\* toEither(onPending)(ma)
ToEither ==
  /\ Fresh
  /\ \E p \in E :
       Destruct("toEither", [onPending |-> p],
                toEither(Thunk("onPending", p), ma))

\* fromEither(toEither(onPending)(ma))
ToFromEither ==
  /\ Fresh
  /\ \E p \in E :
       Steps("toEither;fromEither", [onPending |-> p],
             toEither(Thunk("onPending", p), ma).val,
             Then(toEither(Thunk("onPending", p), ma),
                  [ei \in Either(E, A) |-> Ret(fromEither(ei))]))

\* toEither(onPending)(fromEither(ei)): out is the Either that comes back
FromToEither ==
  /\ Fresh
  /\ \E ei \in Either(E, A), p \in E :
       /\ src' = fromEither(ei)
       /\ len' = 1
       /\ recv' = fromEither(ei)
       /\ op' = "fromEither;toEither"
       /\ arg' = [ei |-> ei, onPending |-> p]
       /\ ma' = fromEither(ei)
       /\ out' = toEither(Thunk("onPending", p), fromEither(ei)).val
       /\ calls' = toEither(Thunk("onPending", p), fromEither(ei)).calls

\* a constructor other than pending, success, failure gave r
Made(name, a, r) ==
  /\ src' = r.val
  /\ len' = 0
  /\ recv' = r.val
  /\ op' = name
  /\ arg' = a
  /\ ma' = r.val
  /\ out' = None
  /\ calls' = r.calls

\* tryCatch(f, onThrow), f returning a value of A or throwing a value of E
TryCatch ==
  /\ Fresh
  /\ \E f \in Outcomes("f", A, E), h \in [E -> E] :
       Made("tryCatch", [f |-> f, onThrow |-> h],
            tryCatch(f, Fn("onThrow", h)))

\* tryCatchK(f, onThrow)(a)
TryCatchK ==
  /\ Fresh
  /\ \E f \in [A -> Outcomes("f", A, E)], a \in A, h \in [E -> E] :
       Made("tryCatchK", [f |-> f, a |-> a, onThrow |-> h],
            tryCatchK(f, Fn("onThrow", h), a))

\* the failure value given as a thunk, or as the value itself
OnNull(e) == {Lazy("onNull", e), Plain(e)}

\* fromNullable(onNull)(a)
FromNullable ==
  /\ Fresh
  /\ \E e \in E, a \in Nullable(A) :
       \E onNull \in OnNull(e) :
         Made("fromNullable", [onNull |-> onNull, a |-> a],
              fromNullable(onNull, a))

\* fromOption(onNone)(ma)
FromOption ==
  /\ Fresh
  /\ \E e \in E, o \in Option(A) :
       Made("fromOption", [onNone |-> Lazy("onNone", e), ma |-> o],
            fromOption(Lazy("onNone", e), o))

\* fromNullableK(e)(f)(a)
FromNullableK ==
  /\ Fresh
  /\ \E e \in E, f \in [A -> Nullable(A)], a \in A :
       \E onNull \in OnNull(e) :
         Made("fromNullableK", [onNull |-> onNull, f |-> f, a |-> a],
              fromNullableK(onNull, Fn("f", f), a))

\* pipe(ma, chainNullableK(e)(f))
ChainNullableK ==
  /\ Fresh
  /\ \E e \in E, f \in [A -> Nullable(A)] :
       \E onNull \in OnNull(e) :
         Step("chainNullableK", [onNull |-> onNull, f |-> f],
              chainNullableK(onNull, Fn("f", f), ma))

\* fromPredicate(predicate, onFalse)(a)
FromPredicate ==
  /\ Fresh
  /\ \E p \in [A -> BOOLEAN], f \in [A -> E], a \in A :
       Made("fromPredicate", [predicate |-> p, onFalse |-> f, a |-> a],
            fromPredicate(Fn("predicate", p), Fn("onFalse", f), a))

\* pipe(ma, filterOrElse(predicate, onFalse))
FilterOrElse ==
  /\ Fresh
  /\ \E p \in [A -> BOOLEAN], f \in [A -> E] :
       Step("filterOrElse", [predicate |-> p, onFalse |-> f],
            filterOrElse(Fn("predicate", p), Fn("onFalse", f), ma))

\* pipe(ma, chainFirst(f))
ChainFirst ==
  /\ Fresh
  /\ \E f \in [A -> RD] :
       Step("chainFirst", [f |-> f], chainFirst(Fn("f", f), ma))

\* pipe(ma, chainEither(f))
ChainEither ==
  /\ Fresh
  /\ \E f \in [A -> Either(E, A)] :
       Step("chainEither", [f |-> f], chainEither(Fn("f", f), ma))

\* pipe(ma, bimap(f, g))
Bimap ==
  /\ Fresh
  /\ \E f \in [E -> E], g \in [A -> A] :
       Step("bimap", [f |-> f, g |-> g], bimap(Fn("f", f), Fn("g", g), ma))

\* pipe(ma, mapLeft(f))
MapLeft ==
  /\ Fresh
  /\ \E f \in [E -> E] :
       Step("mapLeft", [f |-> f], mapLeft(Fn("f", f), ma))

\* pipe(ma, map(g), mapLeft(f))
MapMapLeft ==
  /\ Fresh
  /\ \E f \in [E -> E], g \in [A -> A] :
       Steps("map;mapLeft", [f |-> f, g |-> g], map(Fn("g", g), ma).val,
             Then(map(Fn("g", g), ma),
                  [v \in RD |-> mapLeft(Fn("f", f), v)]))

\* pipe(ma, mapLeft(f), map(g))
MapLeftMap ==
  /\ Fresh
  /\ \E f \in [E -> E], g \in [A -> A] :
       Steps("mapLeft;map", [f |-> f, g |-> g], mapLeft(Fn("f", f), ma).val,
             Then(mapLeft(Fn("f", f), ma),
                  [v \in RD |-> map(Fn("g", g), v)]))

\* pipe(fa, apFirst(fb))
ApFirst ==
  /\ Fresh
  /\ \E fb \in RD :
       Step("apFirst", [fb |-> fb], Ret(apFirst(fb, ma)))

\* pipe(fa, apSecond(fb))
ApSecond ==
  /\ Fresh
  /\ \E fb \in RD :
       Step("apSecond", [fb |-> fb], Ret(apSecond(fb, ma)))

\* pipe(wa, extend(f))
Extend ==
  /\ Fresh
  /\ \E f \in [RD -> A] :
       Step("extend", [f |-> f], extend(Fn("f", f), ma))

\* duplicate(ma)
Duplicate ==
  /\ Fresh
  /\ Step("duplicate", <<>>, Ret(duplicate(ma)))

\* flatten(of(ma))
OfFlatten ==
  /\ Fresh
  /\ Steps("of;flatten", <<>>, of(ma), Ret(flatten(of(ma))))

\* pipe(ma, duplicate, flatten)
DuplicateFlatten ==
  /\ Fresh
  /\ Steps("duplicate;flatten", <<>>, duplicate(ma),
           Ret(flatten(duplicate(ma))))

\* pipe(ma, map(of), flatten)
MapOfFlatten ==
  /\ Fresh
  /\ Steps("map(of);flatten", <<>>, map(ofK, ma).val,
           Ret(flatten(map(ofK, ma).val)))

\* pipe(ta, traverse(F)(f))
Traverse ==
  /\ Fresh
  /\ \E F \in Applicatives :
       \E f \in [A -> HKT(F, A)] :
         Destruct("traverse", [F |-> F, f |-> f],
                  traverse(F, Fn("f", f), ma))

\* pipe(ma, map(f), sequence(F))
MapSequence ==
  /\ Fresh
  /\ \E F \in Applicatives :
       \E f \in [A -> HKT(F, A)] :
         Steps("map;sequence", [F |-> F, f |-> f], map(Fn("f", f), ma).val,
               [val |-> sequence(F, map(Fn("f", f), ma).val),
                calls |-> map(Fn("f", f), ma).calls])

\* pipe(fa, reduce(b, f))
Reduce ==
  /\ Fresh
  /\ \E b \in A, f \in [A \X A -> A] :
       Destruct("reduce", [b |-> b, f |-> f], reduce(b, Fn("f", f), ma))

\* pipe(fa, reduceRight(b, f))
ReduceRight ==
  /\ Fresh
  /\ \E b \in A, f \in [A \X A -> A] :
       Destruct("reduceRight", [b |-> b, f |-> f],
                reduceRight(b, Fn("f", f), ma))

\* pipe(fa, foldMap(M)(f))
FoldMap ==
  /\ Fresh
  /\ \E M \in Monoids, f \in [A -> A] :
       Destruct("foldMap", [M |-> M, f |-> f], foldMap(M, Fn("f", f), ma))

\* elem(E)(a, ma)
Elem ==
  /\ Fresh
  /\ \E eq \in [A \X A -> BOOLEAN], a \in A :
       Destruct("elem", [E |-> eq, a |-> a, curried |-> FALSE],
                elem(Fn("equals", eq), a, ma))

\* elem(E)(a)(ma)
ElemCurried ==
  /\ Fresh
  /\ \E eq \in [A \X A -> BOOLEAN], a \in A :
       Destruct("elem", [E |-> eq, a |-> a, curried |-> TRUE],
                elem(Fn("equals", eq), a, JsUndefined)[ma])

\* exists(predicate)(ma)
Exists ==
  /\ Fresh
  /\ \E p \in [A -> BOOLEAN] :
       Destruct("exists", [predicate |-> p], exists(Fn("predicate", p), ma))

\* getEq(EqE, EqA).equals(ma, y), z being a third value to compare with
GetEq ==
  /\ Fresh
  /\ \E EqE \in Eqs(E), EqA \in Eqs(A), y \in RD, z \in RD :
       Destruct("getEq", [EqE |-> EqE, EqA |-> EqA, y |-> y, z |-> z],
                getEq(Fn("EqE.equals", EqE), Fn("EqA.equals", EqA), ma, y))

\* toNullable(ma)
ToNullable ==
  /\ Fresh
  /\ Destruct("toNullable", <<>>, Ret(toNullable(ma)))

\* toUndefined(ma)
ToUndefined ==
  /\ Fresh
  /\ Destruct("toUndefined", <<>>, Ret(toUndefined(ma)))

\* getSuccess(ma)
GetSuccess ==
  /\ Fresh
  /\ Destruct("getSuccess", <<>>, Ret(getSuccess(ma)))

\* getFailure(ma)
GetFailure ==
  /\ Fresh
  /\ Destruct("getFailure", <<>>, Ret(getFailure(ma)))

\* pipe(ma, swap)
Swap ==
  /\ Fresh
  /\ Step("swap", <<>>, Ret(swap(ma)))

\* pipe(ma, swap, swap)
SwapSwap ==
  /\ Fresh
  /\ Steps("swap;swap", <<>>, swap(ma), Ret(swap(swap(ma))))

\* pipe(Do, bind('firstName', f), bind('age', g))
DoBindBind ==
  /\ Fresh
  /\ \E f \in [{EmptyRecord} -> RD],
        g \in [[{"firstName"} -> A] -> RD] :
       Made("Do;bind;bind", [f |-> f, g |-> g],
            Then(bind("firstName", Fn("f", f), Do),
                 [v \in RemoteData(E, [{"firstName"} -> A]) |->
                    bind("age", Fn("g", g), v)]))

\* pipe(ma, chain(of))
ChainOf ==
  /\ Fresh
  /\ Step("chain(of)", <<>>, chain(ofK, ma))

Next ==
  \/ Fold
  \/ Map
  \/ MapMap
  \/ Chain
  \/ ChainChain
  \/ Ap
  \/ OrElse
  \/ Alt
  \/ ToEither
  \/ ToFromEither
  \/ FromToEither
  \/ TryCatch
  \/ TryCatchK
  \/ FromNullable
  \/ FromOption
  \/ FromNullableK
  \/ ChainNullableK
  \/ FromPredicate
  \/ FilterOrElse
  \/ ChainFirst
  \/ ChainEither
  \/ Bimap
  \/ MapLeft
  \/ MapMapLeft
  \/ MapLeftMap
  \/ ApFirst
  \/ ApSecond
  \/ Extend
  \/ Duplicate
  \/ OfFlatten
  \/ DuplicateFlatten
  \/ MapOfFlatten
  \/ Traverse
  \/ MapSequence
  \/ Reduce
  \/ ReduceRight
  \/ FoldMap
  \/ Elem
  \/ ElemCurried
  \/ Exists
  \/ GetEq
  \/ ToNullable
  \/ ToUndefined
  \/ GetSuccess
  \/ GetFailure
  \/ Swap
  \/ SwapSwap
  \/ DoBindBind
  \/ ChainOf

Spec == Init /\ [][Next]_vars

----------------------------------------------------------------------------
\* Pipes: the combinators applied one after the other, each to the result of
\* the one before, up to MaxLen of them; a constructor starts a new pipe.
\* The arguments of a combinator are not kept.

Start(name, a, v) ==
  /\ src' = v
  /\ len' = 0
  /\ recv' = v
  /\ op' = name
  /\ arg' = a
  /\ ma' = v
  /\ out' = None
  /\ calls' = <<>>

Pipe(name, r) ==
  /\ len < MaxLen
  /\ src' = src
  /\ len' = len + 1
  /\ recv' = ma
  /\ op' = name
  /\ arg' = <<>>
  /\ ma' = r.val
  /\ out' = None
  /\ calls' = r.calls

Pending ==
  Start("pending", <<>>, pending)

Success ==
  \E a \in A : Start("success", <<a>>, success(a))

Failure ==
  \E e \in E : Start("failure", <<e>>, failure(e))

FromEither ==
  \E ei \in Either(E, A) : Start("fromEither", <<ei>>, fromEither(ei))

PipeMap ==
  \E f \in [A -> A] : Pipe("map", map(Fn("f", f), ma))

PipeChain ==
  \E f \in [A -> RD] : Pipe("chain", chain(Fn("f", f), ma))

PipeAp ==
  \E fab \in RemoteData(E, [A -> A]) : Pipe("ap", Ret(ap(ma, fab)))

PipeOrElse ==
  \E f \in [E -> RD] : Pipe("orElse", orElse(Fn("onFailure", f), ma))

PipeAlt ==
  \E t \in RD : Pipe("alt", alt(Thunk("that", t), ma))

NextPipe ==
  \/ Pending
  \/ Success
  \/ Failure
  \/ FromEither
  \/ PipeMap
  \/ PipeChain
  \/ PipeAp
  \/ PipeOrElse
  \/ PipeAlt

SpecPipe == Init /\ [][NextPipe]_vars

----------------------------------------------------------------------------
\* Pipes over a receiver that is not a Success: the success-side combinators
\* applied one after the other to a Pending or a Failure, and the
\* failure-side ones to a Pending, up to MaxLen of them.

SkipMap ==
  /\ ~isSuccess(ma)
  /\ \E f \in [A -> A] : Pipe("map", map(Fn("f", f), ma))

SkipChain ==
  /\ ~isSuccess(ma)
  /\ \E f \in [A -> RD] : Pipe("chain", chain(Fn("f", f), ma))

SkipChainFirst ==
  /\ ~isSuccess(ma)
  /\ \E f \in [A -> RD] : Pipe("chainFirst", chainFirst(Fn("f", f), ma))

SkipChainEither ==
  /\ ~isSuccess(ma)
  /\ \E f \in [A -> Either(E, A)] :
       Pipe("chainEither", chainEither(Fn("f", f), ma))

SkipChainNullableK ==
  /\ ~isSuccess(ma)
  /\ \E e \in E, f \in [A -> Nullable(A)] :
       \E onNull \in OnNull(e) :
         Pipe("chainNullableK", chainNullableK(onNull, Fn("f", f), ma))

SkipFilterOrElse ==
  /\ ~isSuccess(ma)
  /\ \E p \in [A -> BOOLEAN], f \in [A -> E] :
       Pipe("filterOrElse",
            filterOrElse(Fn("predicate", p), Fn("onFalse", f), ma))

SkipExtend ==
  /\ ~isSuccess(ma)
  /\ \E f \in [RD -> A] : Pipe("extend", extend(Fn("f", f), ma))

SkipFlatten ==
  /\ ~isSuccess(ma)
  /\ Pipe("flatten", Ret(flatten(ma)))

SkipApFirst ==
  /\ ~isSuccess(ma)
  /\ \E fb \in RD : Pipe("apFirst", Ret(apFirst(fb, ma)))

SkipApSecond ==
  /\ ~isSuccess(ma)
  /\ \E fb \in RD : Pipe("apSecond", Ret(apSecond(fb, ma)))

SkipMapLeft ==
  /\ isPending(ma)
  /\ \E f \in [E -> E] : Pipe("mapLeft", mapLeft(Fn("f", f), ma))

SkipBimap ==
  /\ isPending(ma)
  /\ \E f \in [E -> E], g \in [A -> A] :
       Pipe("bimap", bimap(Fn("f", f), Fn("g", g), ma))

SkipAlt ==
  /\ isPending(ma)
  /\ \E t \in RD : Pipe("alt", alt(Thunk("that", t), ma))

SkipOrElse ==
  /\ isPending(ma)
  /\ \E f \in [E -> RD] : Pipe("orElse", orElse(Fn("onFailure", f), ma))

SkipSwap ==
  /\ isPending(ma)
  /\ Pipe("swap", Ret(swap(ma)))

NextSkip ==
  \/ Pending
  \/ Success
  \/ Failure
  \/ FromEither
  \/ SkipMap
  \/ SkipChain
  \/ SkipChainFirst
  \/ SkipChainEither
  \/ SkipChainNullableK
  \/ SkipFilterOrElse
  \/ SkipExtend
  \/ SkipFlatten
  \/ SkipApFirst
  \/ SkipApSecond
  \/ SkipMapLeft
  \/ SkipBimap
  \/ SkipAlt
  \/ SkipOrElse
  \/ SkipSwap

SpecSkip == Init /\ [][NextSkip]_vars

----------------------------------------------------------------------------
\* Properties

ExactlyOne(p, q, r) ==
  \/ p /\ ~q /\ ~r
  \/ ~p /\ q /\ ~r
  \/ ~p /\ ~q /\ r

C2_FoldOneHandler ==
  op = "fold" =>
    /\ isPending(recv) =>
         out = arg.onPending /\ calls = <<"onPending">>
    /\ \A a \in A : recv = success(a) =>
         out = arg.onSuccess[a] /\ calls = <<"onSuccess">>
    /\ \A e \in E : recv = failure(e) =>
         out = arg.onFailure[e] /\ calls = <<"onFailure">>

\* fold ran the failure handler, whose result differs from the other two
C2_Witness ==
  /\ op = "fold"
  /\ isFailure(recv)
  /\ calls = <<"onFailure">>
  /\ out # arg.onPending
  /\ \A a \in A : out # arg.onSuccess[a]

\* C3: map(f)(ma) is Success(f(a)) for Success(a) and ma itself for Pending
\* and Failure(e), where f is not invoked.
C3_Map ==
  op = "map" =>
    /\ \A a \in A : recv = success(a) =>
         ma = success(arg.f[a]) /\ calls = <<"f">>
    /\ ~isSuccess(recv) => ma = recv /\ calls = <<>>

\* map changed the payload of a Success
C3_Witness ==
  /\ op = "map"
  /\ isSuccess(recv)
  /\ isSuccess(ma)
  /\ ma # recv

\* C4: chain(f)(ma) is f(a) for Success(a), whatever variant f(a) is, and ma
\* unchanged for Pending and Failure(e), where f is not invoked.
C4_Chain ==
  op = "chain" =>
    /\ \A a \in A : recv = success(a) =>
         ma = arg.f[a] /\ calls = <<"f">>
    /\ ~isSuccess(recv) => ma = recv /\ calls = <<>>

\* chain returned the Pending that f returned
C4_Witness ==
  /\ op = "chain"
  /\ isSuccess(recv)
  /\ isPending(ma)
  /\ calls = <<"f">>

\* C5: ap(fa)(fab) is fab when fab is not a Success, whatever fa is;
\* otherwise fa when fa is not a Success; otherwise Success(f(a)).
C5_ApFunctionFirst ==
  op = "ap" =>
    /\ ~isSuccess(arg.fab) => ma = arg.fab
    /\ isSuccess(arg.fab) /\ ~isSuccess(arg.fa) => ma = arg.fa
    /\ isSuccess(arg.fab) /\ isSuccess(arg.fa) =>
         ma = success(arg.fab.success[arg.fa.success])

\* both operands are Failures with different payloads: the function side won
C5_Witness ==
  /\ op = "ap"
  /\ isFailure(arg.fab)
  /\ isFailure(arg.fa)
  /\ arg.fab # arg.fa
  /\ ma = arg.fab

\* one operand of ap is a Failure and the other is Pending
ApFailureWithPending ==
  /\ op = "ap"
  /\ \/ isFailure(arg.fab) /\ isPending(arg.fa)
     \/ isPending(arg.fab) /\ isFailure(arg.fa)

\* C6 as stated: when one of fab, fa is Failure(e) and the other is Pending,
\* ap(fa)(fab) is the Failure(e), whichever position holds it.
C6_FailureOverPending ==
  ApFailureWithPending =>
    ma = (IF isFailure(arg.fab) THEN arg.fab ELSE arg.fa)

\* C6 amended: when one of fab, fa is Failure(e) and the other is Pending,
\* ap(fa)(fab) is the function operand fab: Failure(e) when fab is the
\* Failure, Pending when fab is the Pending.
C6_FunctionOperandWins ==
  ApFailureWithPending =>
    /\ ma = arg.fab
    /\ isPending(arg.fab) => isPending(ma)
    /\ isFailure(arg.fab) => isFailure(ma) /\ ma.failure = arg.fab.failure

\* fab is Pending and fa is a Failure: the result is Pending
C6_Witness ==
  /\ op = "ap"
  /\ isPending(arg.fab)
  /\ isFailure(arg.fa)
  /\ isPending(ma)

\* C7: orElse(onFailure)(ma) is onFailure(e) for Failure(e) and ma unchanged
\* for Success and Pending; alt(that)(ma) is that() for a Failure and ma
\* unchanged otherwise, which is orElse(() => that()); the recovery is not
\* evaluated for Success or Pending.
C7_RecoverFailureOnly ==
  /\ op = "orElse" =>
       /\ \A e \in E : recv = failure(e) =>
            ma = arg.onFailure[e] /\ calls = <<"onFailure">>
       /\ ~isFailure(recv) => ma = recv /\ calls = <<>>
  /\ op = "alt" =>
       /\ isFailure(recv) => ma = arg.that /\ calls = <<"that">>
       /\ ~isFailure(recv) => ma = recv /\ calls = <<>>
       /\ [val |-> ma, calls |-> calls] =
            orElse([e \in E |-> Thunk("that", arg.that)], recv)

\* alt left a Pending alone although the alternative is a Success
C7_Witness ==
  /\ op = "alt"
  /\ isPending(recv)
  /\ isSuccess(arg.that)
  /\ isPending(ma)

\* C8: map(identity)(ma) equals ma, and map(g)(map(f)(ma)) equals
\* map(x => g(f(x)))(ma), for all three variants of ma.
C8_FunctorLaws ==
  /\ op = "map" /\ arg.f = identity(A) => ma = recv
  /\ op = "map;map" =>
       ma = map(Fn("gf", Compose(arg.g, arg.f)), recv).val

\* two maps in a row changed the payload of a Success
C8_Witness ==
  /\ op = "map;map"
  /\ isSuccess(recv)
  /\ arg.f # identity(A)
  /\ arg.g # identity(A)
  /\ ma # recv

\* C9: chain(f)(of(a)) equals f(a), and chain(g)(chain(f)(ma)) equals
\* chain(x => chain(g)(f(x)))(ma), for all three variants of ma and f, g
\* returning any variant.
C9_MonadLaws ==
  /\ op = "chain" =>
       \A a \in A : recv = of(a) => ma = arg.f[a]
  /\ op = "chain;chain" =>
       ma = chain(ChainAfter(Fn("g", arg.g), Fn("f", arg.f)), recv).val

\* both chained functions ran, the second one failing
C9_Witness ==
  /\ op = "chain;chain"
  /\ isSuccess(recv)
  /\ isSuccess(out)
  /\ isFailure(ma)
  /\ calls = <<"f", "g">>

\* C10: toEither(onPending) maps Success(a) to Right(a), Failure(e) to
\* Left(e), Pending to Left(onPending()), calling onPending only for Pending;
\* fromEither(toEither(onPending)(ma)) is ma for Success and Failure and
\* Failure(onPending()) for Pending; toEither(onPending)(fromEither(ei)) is
\* ei.
C10_EitherRoundTrip ==
  /\ op \in {"toEither", "toEither;fromEither"} =>
       /\ isPending(recv) =>
            out = left(arg.onPending) /\ calls = <<"onPending">>
       /\ \A a \in A : recv = success(a) =>
            out = right(a) /\ calls = <<>>
       /\ \A e \in E : recv = failure(e) =>
            out = left(e) /\ calls = <<>>
  /\ op = "toEither;fromEither" =>
       ma = (IF isPending(recv) THEN failure(arg.onPending) ELSE recv)
  /\ op = "fromEither;toEither" =>
       out = arg.ei /\ calls = <<>>

\* a Pending went to Either and came back as a Failure
C10_Witness ==
  /\ op = "toEither;fromEither"
  /\ isPending(recv)
  /\ out = left(arg.onPending)
  /\ ma = failure(arg.onPending)

\* what tryCatch gives for the outcome o of the wrapped code
TryCatchResult(o, onThrow) ==
  /\ ma \in RD
  /\ ~o.threw => ma = success(o.val) /\ calls = <<"f">>
  /\ o.threw => ma = failure(onThrow[o.val]) /\ calls = <<"f", "onThrow">>

\* C11: tryCatch(f, onThrow) evaluates f once and is Success(f()) when f
\* returns and Failure(onThrow(x)) when f throws x, so that no exception
\* reaches the caller; tryCatchK(f, onThrow)(a) is
\* tryCatch(() => f(a), onThrow).
C11_TryCatch ==
  /\ op = "tryCatch" => TryCatchResult(arg.f, arg.onThrow)
  /\ op = "tryCatchK" => TryCatchResult(arg.f[arg.a], arg.onThrow)

\* the wrapped function threw for this argument and returns for another one
C11_Witness ==
  /\ op = "tryCatchK"
  /\ arg.f[arg.a].threw
  /\ \E b \in A : ~arg.f[b].threw
  /\ isFailure(ma)

\* C12: fromNullable(onNull)(a) is Success(a) for every a other than null
\* and undefined, falsy values included, and Failure(onNull()) for null and
\* undefined; fromOption(onNone) is Success(a) for Some(a) and
\* Failure(onNone()) for None; the thunk is called once on the absent path
\* and never on the other.
C12_LazyOnAbsent ==
  /\ op = "fromNullable" /\ arg.onNull.callable =>
       /\ arg.a \in {JsNull, JsUndefined} =>
            ma = failure(arg.onNull.val) /\ calls = <<"onNull">>
       /\ \A a \in A : arg.a = Js(a) =>
            ma = success(a) /\ calls = <<>>
  /\ op = "fromOption" =>
       /\ arg.ma = none =>
            ma = failure(arg.onNone.val) /\ calls = <<"onNone">>
       /\ \A a \in A : arg.ma = some(a) =>
            ma = success(a) /\ calls = <<>>

\* the falsy value 0 is present: a Success, and the thunk did not run
C12_Witness ==
  /\ op = "fromNullable"
  /\ arg.onNull.callable
  /\ arg.a = Js(0)
  /\ ma = success(0)
  /\ calls = <<>>

\* C13: given the failure value e itself and not a thunk, fromNullable(e)(a)
\* is Success(a) for a present and Failure(e) for null and undefined, and
\* fromNullableK(e)(f), chainNullableK(e)(f) give Failure(e) when f returns
\* null; e is not called.
C13_PlainFailureValue ==
  /\ op = "fromNullable" /\ ~arg.onNull.callable =>
       /\ eqNull(arg.a) => ma = failure(arg.onNull.val)
       /\ \A a \in A : arg.a = Js(a) => ma = success(a)
  /\ op = "fromNullableK" /\ ~arg.onNull.callable =>
       /\ eqNull(arg.f[arg.a]) => ma = failure(arg.onNull.val)
  /\ op = "chainNullableK" /\ ~arg.onNull.callable =>
       \A a \in A : recv = success(a) /\ eqNull(arg.f[a]) =>
         ma = failure(arg.onNull.val)

\* the last operation returned v after calling c
Gave(v, c) == ma = v /\ calls = c

\* the last operation returned what r is
Same(r) == ma = r.val /\ calls = r.calls

\* C14: filterOrElse(predicate, onFalse)(ma) is Success(a) for Success(a)
\* with predicate(a), Failure(onFalse(a)) for Success(a) without, and ma
\* unchanged for Pending and Failure, predicate and onFalse not invoked; it
\* equals chain(fromPredicate(predicate, onFalse))(ma), and
\* fromPredicate(predicate, onFalse)(a) is Success(a) if predicate(a), else
\* Failure(onFalse(a)).
C14_FilterOrElse ==
  /\ op = "filterOrElse" =>
       /\ \A a \in A : recv = success(a) /\ arg.predicate[a] =>
            Gave(success(a), <<"predicate">>)
       /\ \A a \in A : recv = success(a) /\ ~arg.predicate[a] =>
            Gave(failure(arg.onFalse[a]), <<"predicate", "onFalse">>)
       /\ ~isSuccess(recv) => Gave(recv, <<>>)
       /\ Same(chain([a \in A |->
                        fromPredicate(Fn("predicate", arg.predicate),
                                      Fn("onFalse", arg.onFalse), a)],
                     recv))
  /\ op = "fromPredicate" =>
       /\ arg.predicate[arg.a] => ma = success(arg.a)
       /\ ~arg.predicate[arg.a] => ma = failure(arg.onFalse[arg.a])

\* a Success the predicate rejects became the Failure onFalse made of it
C14_Witness ==
  /\ op = "filterOrElse"
  /\ isSuccess(recv)
  /\ ~arg.predicate[recv.success]
  /\ \E a \in A : arg.predicate[a]
  /\ ma = failure(arg.onFalse[recv.success])

\* C15: chainFirst(f)(ma) is, for Success(a), Success(a) if f(a) is a
\* Success (its payload discarded) and f(a) itself if f(a) is a Failure or
\* Pending; for Pending and Failure it is ma unchanged, f not invoked.
C15_ChainFirst ==
  op = "chainFirst" =>
    /\ \A a \in A : recv = success(a) /\ isSuccess(arg.f[a]) =>
         Gave(success(a), <<"f">>)
    /\ \A a \in A : recv = success(a) /\ ~isSuccess(arg.f[a]) =>
         Gave(arg.f[a], <<"f">>)
    /\ ~isSuccess(recv) => Gave(recv, <<>>)

\* f succeeded with another payload, which was discarded
C15_Witness ==
  /\ op = "chainFirst"
  /\ isSuccess(recv)
  /\ isSuccess(arg.f[recv.success])
  /\ arg.f[recv.success] # recv
  /\ ma = recv

\* a => fromEither(f(a))
FromEitherAfter(f) ==
  [a \in DOMAIN f |->
     [val |-> fromEither(f[a].val), calls |-> f[a].calls]]

\* a => fromNullable(onNull)(f(a))
FromNullableAfter(onNull, f) ==
  [a \in DOMAIN f |->
     [val |-> fromNullable(onNull, f[a].val).val,
      calls |-> f[a].calls \o fromNullable(onNull, f[a].val).calls]]

\* C16: chainEither(f)(ma) equals chain(a => fromEither(f(a)))(ma):
\* Success(b) for f(a) = Right(b), Failure(d) for f(a) = Left(d);
\* chainNullableK(onNull)(f)(ma) equals
\* chain(a => fromNullable(onNull)(f(a)))(ma); both return Pending and
\* Failure unchanged without invoking f.
C16_BridgingChains ==
  /\ op = "chainEither" =>
       /\ Same(chain(FromEitherAfter(Fn("f", arg.f)), recv))
       /\ \A a \in A, b \in A : recv = success(a) /\ arg.f[a] = right(b) =>
            Gave(success(b), <<"f">>)
       /\ \A a \in A, d \in E : recv = success(a) /\ arg.f[a] = left(d) =>
            Gave(failure(d), <<"f">>)
       /\ ~isSuccess(recv) => Gave(recv, <<>>)
  /\ op = "chainNullableK" =>
       /\ Same(chain(FromNullableAfter(arg.onNull, Fn("f", arg.f)), recv))
       /\ ~isSuccess(recv) => Gave(recv, <<>>)

\* f returned a Left, which became the Failure
C16_Witness ==
  /\ op = "chainEither"
  /\ isSuccess(recv)
  /\ arg.f[recv.success]._tag = "Left"
  /\ isFailure(ma)
  /\ calls = <<"f">>

\* C17: bimap(f, g)(ma) is Success(g(a)) for Success(a), Failure(f(e)) for
\* Failure(e) and Pending for Pending; for every ma it equals
\* mapLeft(f)(map(g)(ma)) and map(g)(mapLeft(f)(ma)); mapLeft(f) transforms
\* only a Failure payload and leaves Success and Pending unchanged.
C17_Bimap ==
  /\ op = "bimap" =>
       /\ \A a \in A : recv = success(a) =>
            Gave(success(arg.g[a]), <<"g">>)
       /\ \A e \in E : recv = failure(e) =>
            Gave(failure(arg.f[e]), <<"f">>)
       /\ isPending(recv) => Gave(pending, <<>>)
       /\ Same(Then(map(Fn("g", arg.g), recv),
                    [v \in RD |-> mapLeft(Fn("f", arg.f), v)]))
       /\ Same(Then(mapLeft(Fn("f", arg.f), recv),
                    [v \in RD |-> map(Fn("g", arg.g), v)]))
  /\ op \in {"map;mapLeft", "mapLeft;map"} =>
       Same(bimap(Fn("f", arg.f), Fn("g", arg.g), recv))
  /\ op = "mapLeft" =>
       /\ \A e \in E : recv = failure(e) =>
            Gave(failure(arg.f[e]), <<"f">>)
       /\ ~isFailure(recv) => Gave(recv, <<>>)

\* a Failure whose payload f changed, while g would change a Success
C17_Witness ==
  /\ op = "bimap"
  /\ isFailure(recv)
  /\ isFailure(ma)
  /\ ma # recv
  /\ \E a \in A : arg.g[a] # a

\* C18: apFirst(fb)(fa) is Success(a) and apSecond(fb)(fa) is Success(b)
\* only when fa = Success(a) and fb = Success(b); otherwise both return fa
\* when fa is not a Success (whatever fb is), else fb.
C18_ApFirstSecond ==
  op \in {"apFirst", "apSecond"} =>
    /\ isSuccess(recv) /\ isSuccess(arg.fb) =>
         /\ op = "apFirst" => ma = success(recv.success)
         /\ op = "apSecond" => ma = success(arg.fb.success)
    /\ isSuccess(ma) => isSuccess(recv) /\ isSuccess(arg.fb)
    /\ ~isSuccess(recv) => ma = recv
    /\ isSuccess(recv) /\ ~isSuccess(arg.fb) => ma = arg.fb
    /\ calls = <<>>

\* neither operand is a Success and they differ: the receiver was returned
C18_Witness ==
  /\ op = "apFirst"
  /\ ~isSuccess(recv)
  /\ ~isSuccess(arg.fb)
  /\ arg.fb # recv
  /\ ma = recv

\* C19: extend(f)(wa) is Success(f(wa)) when wa is a Success, f receiving
\* the whole Success value, and wa unchanged, f not invoked, when wa is
\* Pending or a Failure; duplicate equals extend(identity):
\* duplicate(Success(a)) is Success(Success(a)), duplicate(Pending) is
\* Pending and duplicate(Failure(e)) is Failure(e).
C19_Extend ==
  /\ op = "extend" =>
       /\ isSuccess(recv) => Gave(success(arg.f[recv]), <<"f">>)
       /\ ~isSuccess(recv) => Gave(recv, <<>>)
  /\ op = "duplicate" =>
       /\ Same(extend(identityK(RD), recv))
       /\ \A a \in A : recv = success(a) => ma = success(success(a))
       /\ isPending(recv) => ma = pending
       /\ \A e \in E : recv = failure(e) => ma = failure(e)

\* f was given the whole Success, and what it returned is not the payload
C19_Witness ==
  /\ op = "extend"
  /\ isSuccess(recv)
  /\ arg.f[recv] # recv.success
  /\ ma = success(arg.f[recv])
  /\ calls = <<"f">>

\* C20: flatten equals chain(identity): flatten(Success(inner)) is inner
\* for every inner variant, flatten(Pending) is Pending and
\* flatten(Failure(e)) is Failure(e); flatten(duplicate(ma)) equals ma and
\* flatten(map(of)(ma)) equals ma for every ma.
C20_Flatten ==
  /\ op \in {"of;flatten", "duplicate;flatten", "map(of);flatten"} =>
       /\ isSuccess(out) => ma = out.success
       /\ isPending(out) => ma = pending
       /\ \A e \in E : out = failure(e) => ma = failure(e)
       /\ Same(chain(identityK(RD), out))
       /\ ma = recv
  /\ op = "of;flatten" => out = success(recv)

\* a Success holding a Failure was flattened into that Failure
C20_Witness ==
  /\ op = "of;flatten"
  /\ isFailure(recv)
  /\ out = success(recv)
  /\ ma = recv

\* C21: traverse(F)(f)(ta) is F.map(f(a), success) when ta is Success(a)
\* and F.of(ta) when ta is Pending or a Failure, f not invoked; with the
\* Option applicative: None when f(a) is None, Some(Success(b)) when f(a)
\* is Some(b), Some(ta) for Pending and Failure. sequence(F)(ma) equals
\* traverse(F)(identity)(ma) for every ma.
C21_Traverse ==
  /\ op = "traverse" =>
       /\ \A a \in A : recv = success(a) =>
            /\ out = Fmap(arg.F, arg.f[a], successFn)
            /\ calls = <<"f">>
            /\ arg.F = "Option" /\ arg.f[a] = none => out = none
            /\ \A b \in A : arg.F = "Option" /\ arg.f[a] = some(b) =>
                 out = some(success(b))
       /\ ~isSuccess(recv) =>
            /\ out = Fof(arg.F, recv)
            /\ calls = <<>>
            /\ arg.F = "Option" => out = some(recv)
  /\ op = "map;sequence" =>
       ma = traverse(arg.F, identityK(HKT(arg.F, A)), out).val

\* f gave None for the payload of a Success, and so did traverse
C21_Witness ==
  /\ op = "traverse"
  /\ arg.F = "Option"
  /\ isSuccess(recv)
  /\ arg.f[recv.success] = none
  /\ \E a \in A : arg.f[a] # none
  /\ out = none

\* the last destructor returned v after calling c
Got(v, c) == out = v /\ calls = c

\* C22: for Success(a), reduce(b, f) returns f(b, a), reduceRight(b, f)
\* returns f(a, b) and foldMap(M)(f) returns f(a); for Pending and Failure
\* reduce and reduceRight return the seed b and foldMap returns M.empty,
\* f not invoked.
C22_Foldable ==
  /\ op = "reduce" =>
       /\ \A a \in A : recv = success(a) =>
            Got(arg.f[<<arg.b, a>>], <<"f">>)
       /\ ~isSuccess(recv) => Got(arg.b, <<>>)
  /\ op = "reduceRight" =>
       /\ \A a \in A : recv = success(a) =>
            Got(arg.f[<<a, arg.b>>], <<"f">>)
       /\ ~isSuccess(recv) => Got(arg.b, <<>>)
  /\ op = "foldMap" =>
       /\ \A a \in A : recv = success(a) => Got(arg.f[a], <<"f">>)
       /\ ~isSuccess(recv) => Got(Mempty(arg.M), <<>>)

\* f is not symmetric in seed and payload, and reduce gave f(b, a)
C22_Witness ==
  /\ op = "reduce"
  /\ isSuccess(recv)
  /\ arg.f[<<arg.b, recv.success>>] # arg.f[<<recv.success, arg.b>>]
  /\ out = arg.f[<<arg.b, recv.success>>]

\* C23: elem(Eq)(a)(ma) is true iff ma is Success(x) and Eq.equals(a, x);
\* exists(predicate)(ma) is true iff ma is Success(x) and predicate(x); for
\* Pending and Failure both return false and the equality or predicate is
\* not invoked. The curried form elem(Eq)(a)(ma) and the uncurried form
\* elem(Eq)(a, ma) return the same result.
C23_ElemExists ==
  /\ op = "elem" =>
       /\ out = (\E x \in A : recv = success(x) /\ arg.E[<<arg.a, x>>])
       /\ isSuccess(recv) => calls = <<"equals">>
       /\ ~isSuccess(recv) => Got(FALSE, <<>>)
       /\ out = elem(Fn("equals", arg.E), arg.a, recv).val
       /\ out = elem(Fn("equals", arg.E), arg.a, JsUndefined)[recv].val
  /\ op = "exists" =>
       /\ out = (\E x \in A : recv = success(x) /\ arg.predicate[x])
       /\ isSuccess(recv) => calls = <<"predicate">>
       /\ ~isSuccess(recv) => Got(FALSE, <<>>)

\* the curried form on a Failure whose payload the equality would accept
C23_Witness ==
  /\ op = "elem"
  /\ arg.curried
  /\ isFailure(recv)
  /\ arg.E[<<arg.a, recv.failure>>]
  /\ out = FALSE

\* getEq(arg.EqE, arg.EqA).equals(x, y)
Equals(x, y) ==
  getEq(Fn("EqE.equals", arg.EqE), Fn("EqA.equals", arg.EqA), x, y).val

\* C24: getEq(EqE, EqA).equals(x, y) is true iff x and y are both Pending,
\* or both Failure with EqE-equal payloads, or both Success with EqA-equal
\* payloads; whenever EqE and EqA are equivalence relations, the derived
\* equality is reflexive, symmetric and transitive.
C24_GetEq ==
  op = "getEq" =>
    /\ out = \/ isPending(recv) /\ isPending(arg.y)
             \/ \E d, e \in E : /\ recv = failure(d)
                                /\ arg.y = failure(e)
                                /\ arg.EqE[<<d, e>>]
             \/ \E a, b \in A : /\ recv = success(a)
                                /\ arg.y = success(b)
                                /\ arg.EqA[<<a, b>>]
    /\ recv._tag # arg.y._tag => out = FALSE
    /\ IsEquivalence(arg.EqE, E) /\ IsEquivalence(arg.EqA, A) =>
         /\ Equals(recv, recv)
         /\ out = Equals(arg.y, recv)
         /\ out /\ Equals(arg.y, arg.z) => Equals(recv, arg.z)

\* two Failures with different payloads that EqE tells apart, under an
\* EqA that tells nothing apart
C24_Witness ==
  /\ op = "getEq"
  /\ isFailure(recv)
  /\ isFailure(arg.y)
  /\ IsEquivalence(arg.EqE, E)
  /\ \A p \in A \X A : arg.EqA[p]
  /\ ~arg.EqE[<<recv.failure, arg.y.failure>>]
  /\ out = FALSE

\* C25: toNullable, toUndefined and getSuccess return a, a and Some(a) for
\* Success(a) and null, undefined and None for both Pending and
\* Failure(e); getFailure returns Some(e) for Failure(e) and None for
\* Success and Pending. getSuccess(ma) and getFailure(ma) are never both
\* Some, and both are None exactly when ma is Pending.
C25_Projections ==
  /\ op = "toNullable" =>
       /\ \A a \in A : recv = success(a) => out = Js(a)
       /\ ~isSuccess(recv) => out = JsNull
  /\ op = "toUndefined" =>
       /\ \A a \in A : recv = success(a) => out = Js(a)
       /\ ~isSuccess(recv) => out = JsUndefined
  /\ op = "getSuccess" =>
       /\ \A a \in A : recv = success(a) => out = some(a)
       /\ ~isSuccess(recv) => out = none
       /\ ~(out # none /\ getFailure(recv) # none)
       /\ (out = none /\ getFailure(recv) = none) <=> isPending(recv)
  /\ op = "getFailure" =>
       /\ \A e \in E : recv = failure(e) => out = some(e)
       /\ ~isFailure(recv) => out = none
       /\ ~(out # none /\ getSuccess(recv) # none)
       /\ (out = none /\ getSuccess(recv) = none) <=> isPending(recv)

\* the payload of a Failure was dropped
C25_Witness ==
  /\ op = "toNullable"
  /\ isFailure(recv)
  /\ out = JsNull

\* C26: swap(Success(a)) is Failure(a), swap(Failure(e)) is Success(e),
\* swap(Pending) is Pending; swap(swap(ma)) equals ma for every ma.
C26_Swap ==
  /\ op = "swap" =>
       /\ \A a \in A : recv = success(a) => ma = failure(a)
       /\ \A e \in E : recv = failure(e) => ma = success(e)
       /\ isPending(recv) => ma = pending
  /\ op = "swap;swap" =>
       /\ out = swap(recv)
       /\ ma = recv

\* a Failure went to the Success side and came back
C26_Witness ==
  /\ op = "swap;swap"
  /\ isFailure(recv)
  /\ isSuccess(out)
  /\ ma = recv

\* what the first step of the chain of binds returned
FirstStep == arg.f[EmptyRecord]

\* the record handed to the second step
FirstRecord == With(EmptyRecord, "firstName", FirstStep.success)

SuccessSide ==
  {"map", "chain", "chainFirst", "chainEither", "chainNullableK",
   "filterOrElse", "extend", "flatten", "apFirst", "apSecond"}

\* the combinators that also act on a Failure
FailureSide == {"mapLeft", "bimap", "alt", "orElse", "swap"}

\* C28: for any pipeline of map, chain, chainFirst, chainEither,
\* chainNullableK, filterOrElse, extend, flatten, apFirst and apSecond
\* applied to a Pending or a Failure(e), the result is the original Pending
\* or Failure(e) and none of the callbacks passed is invoked; Pending also
\* stays Pending under mapLeft, bimap, alt, orElse and swap.
C28_NonSuccessFixed ==
  /\ op \in SuccessSide /\ ~isSuccess(src) => Gave(src, <<>>)
  /\ op \in SuccessSide \cup FailureSide /\ isPending(src) =>
       Gave(pending, <<>>)

\* a Failure came unchanged out of a pipe of MaxLen combinators
C28_Witness ==
  /\ len = MaxLen
  /\ op = "extend"
  /\ isFailure(src)
  /\ ma = src

\* f => map(f)(fa), f being the payload of fab: it calls nothing of the
\* caller's
MapOver(fa) == [f \in [A -> A] |-> map([a \in A |-> Ret(f[a])], fa)]

\* C29: for every fab and fa, ap(fa)(fab) equals
\* chain(f => map(f)(fa))(fab); the non-pipeable methods of the instance
\* (map, ap, chain, bimap, mapLeft, alt, extend, reduce, reduceRight,
\* foldMap, traverse) return what their pipeable counterparts return.
C29_ApDerived ==
  /\ op = "ap" =>
       /\ Same(chain(MapOver(arg.fa), arg.fab))
       /\ ma = ap_(arg.fab, arg.fa)
  /\ op = "map" => Same(map_(recv, Fn("f", arg.f)))
  /\ op = "chain" => Same(chain_(recv, Fn("f", arg.f)))
  /\ op = "bimap" => Same(bimap_(recv, Fn("f", arg.f), Fn("g", arg.g)))
  /\ op = "mapLeft" => Same(mapLeft_(recv, Fn("f", arg.f)))
  /\ op = "alt" => Same(alt_(recv, Thunk("that", arg.that)))
  /\ op = "extend" => Same(extend_(recv, Fn("f", arg.f)))
  /\ op = "reduce" =>
       Got(reduce_(recv, arg.b, Fn("f", arg.f)).val,
           reduce_(recv, arg.b, Fn("f", arg.f)).calls)
  /\ op = "reduceRight" =>
       Got(reduceRight_(recv, arg.b, Fn("f", arg.f)).val,
           reduceRight_(recv, arg.b, Fn("f", arg.f)).calls)
  /\ op = "foldMap" =>
       Got(foldMap_(arg.M, recv, Fn("f", arg.f)).val,
           foldMap_(arg.M, recv, Fn("f", arg.f)).calls)
  /\ op = "traverse" =>
       Got(traverse_(arg.F, recv, Fn("f", arg.f)).val,
           traverse_(arg.F, recv, Fn("f", arg.f)).calls)

\* a Pending function operand with a Failure argument operand
C29_Witness ==
  /\ op = "ap"
  /\ isPending(arg.fab)
  /\ isFailure(arg.fa)
  /\ ma = pending

\* a => of(f(a))
OfAfter(f) ==
  [a \in DOMAIN f |-> [val |-> of(f[a].val), calls |-> f[a].calls]]

\* C30: for every ma, chain(of)(ma) equals ma, and map(f)(ma) equals
\* chain(a => of(f(a)))(ma).
C30_RightIdentity ==
  /\ op = "chain(of)" => Gave(recv, <<>>)
  /\ op = "map" => Same(chain(OfAfter(Fn("f", arg.f)), recv))

\* chain(of) rebuilt a Success
C30_Witness ==
  /\ op = "chain(of)"
  /\ isSuccess(recv)
  /\ ma = recv

====
